---- MODULE Spec2Model ----
(***************************************************************************)
(* Channel-Dissector-AI: the page controller (src/App.tsx), the analysis   *)
(* and presentation flows of the model service and its JSON sanitizer      *)
(* (src/unnamed/part_000, lines 1-441: services/geminiService) and the     *)
(* presentation view (src/unnamed/part_000, lines 442-663).                *)
(*                                                                         *)
(* One action is one run-to-completion segment of the JavaScript event     *)
(* loop: an event handler up to its first await, or the continuation of an *)
(* await up to the next one, with every state update it batches and every  *)
(* effect the resulting render runs.                                       *)
(***************************************************************************)
EXTENDS Integers, Sequences, FiniteSets, Bags, TLC

VARIABLES
    url,                 \* App: useState(DEFAULT_CHANNEL_URL)
    appState,            \* App: useState(AppState.IDLE)
    graphData,           \* App: TopicGraphData | null
    videoList,           \* App: VideoData[]
    presentationData,    \* App: PresentationData | null
    error,               \* App: string | null
    progress,            \* App: the displayed percentage, in tenths of a percent
    progressIntervalRef, \* App: 0 for null, else the cap of the running interval timer
    flows,               \* bag of the asynchronous operations in flight (awaits, file reads, timeouts)
    view,                \* PresentationView: currentSlideIndex, images, loadingImage
    imgReqs,             \* bag of generateSlideImage calls in flight
    crashed,             \* an exception escaped a render: React unmounted the tree
    last,                \* history: what the last step did
    pin,                 \* sanitizer harness: input text or parsed value
    pout                 \* sanitizer harness: result of the function under check

appVars == <<url, appState, graphData, videoList, presentationData, error,
              progress, progressIntervalRef, flows>>
viewVars == <<view, imgReqs, crashed>>
pureVars == <<pin, pout>>
vars == <<url, appState, graphData, videoList, presentationData, error,
              progress, progressIntervalRef, flows, view, imgReqs, crashed, last,
              pin, pout>>

----------------------------------------------------------------------------
(* Bounds of the model *)

\* operations (analyses, generations, imports, pending timeouts) in flight at once
MaxFlows == 2
\* generateSlideImage calls in flight at once
MaxImageRequests == 2
\* slides of the longest generated deck
MaxSlides == 2

----------------------------------------------------------------------------
(* Values *)

Null == [null |-> TRUE]
NoError == "null"

IDLE == "IDLE"
ANALYZING == "ANALYZING"
DASHBOARD == "DASHBOARD"
GENERATING_SLIDES == "GENERATING_SLIDES"
PRESENTATION == "PRESENTATION"
AppStates == {IDLE, ANALYZING, DASHBOARD, GENERATING_SLIDES, PRESENTATION}

DEFAULT_CHANNEL_URL == "https://www.youtube.com/@bottomturtlepodcast"
OtherUrl == "https://www.youtube.com/@other"
\* what the user can type into the url field
TypedUrls == {"", DEFAULT_CHANNEL_URL, OtherUrl}

AnalysisFailedMsg ==
    "Analysis failed. Please ensure the URL is valid and try again. Gemini might be overloaded."
VideoParseFailedMsg == "Failed to parse video list from model output."
GenerationFailedMsg == "Failed to generate presentation. Please try again."
ImportFailedPrefix == "Failed to parse TOML file. "
ImportMissingMsg == "Failed to parse TOML file. Invalid TOML structure. Missing graph or videos."
ImportSyntaxMsg == "Failed to parse TOML file. Invalid TOML document"

\* A JavaScript value found in a score field: a number (in tenths, so that
\* fractions are representable), a string holding a number, any other
\* string, or no value at all.
JsNum(t) == [t |-> "number", tenths |-> t]
JsNumStr(t) == [t |-> "numeric string", tenths |-> t]
JsText == [t |-> "text", tenths |-> 0]
JsMissing == [t |-> "undefined", tenths |-> 0]
JsInt(n) == JsNum(10 * n)

----------------------------------------------------------------------------
(* The sanitization pass of analyzeChannelContent *)

ScoreMin == 1
ScoreMax == 10
ScoreDefault == 5
WeightMin == 1
WeightMax == 5
WeightDefault == 3

MathMin(a, b) == IF a <= b THEN a ELSE b
MathMax(a, b) == IF a >= b THEN a ELSE b

\* parseInt(v): the integer that the text of v starts with, or NaN.
\* [nan |-> TRUE] stands for NaN; a fraction is cut off toward zero, and
\* -0.5 gives -0, which is 0 here.
ParseInt(v) ==
    IF v.t \in {"number", "numeric string"}
    THEN [nan |-> FALSE,
          n |-> IF v.tenths >= 0 THEN v.tenths \div 10 ELSE -((-v.tenths) \div 10)]
    ELSE [nan |-> TRUE, n |-> 0]

\* x || d: NaN and 0 are falsy
OrDefault(p, d) == IF p.nan \/ p.n = 0 THEN d ELSE p.n

\* the sanitization of a score with the upper clamp left out
SanitizeScoreUnclamped(v) == MathMax(ScoreMin, OrDefault(ParseInt(v), ScoreDefault))

SanitizeScore(v) == MathMin(ScoreMax, MathMax(ScoreMin, OrDefault(ParseInt(v), ScoreDefault)))

SanitizeWeight(v) == MathMin(WeightMax, MathMax(WeightMin, OrDefault(ParseInt(v), WeightDefault)))

NoSummary == "No summary available."

\* parsed: the value safeParse returned for the graph response, with
\* nodesIsArray / linksIsArray for Array.isArray and summary "" for a missing one
SanitizeGraph(parsed) ==
    [nodes |-> [i \in DOMAIN parsed.nodes |->
                  [parsed.nodes[i] EXCEPT
                      !.relevance = JsInt(SanitizeScore(@)),
                      !.popularity = JsInt(SanitizeScore(@))]],
     links |-> IF parsed.linksIsArray
               THEN [i \in DOMAIN parsed.links |->
                       [parsed.links[i] EXCEPT !.value = JsInt(SanitizeWeight(@))]]
               ELSE <<>>,
     summary |-> IF parsed.summary = "" THEN NoSummary ELSE parsed.summary]

\* a score or weight that is an integer of lo..hi
InRange(v, lo, hi) ==
    /\ v.t = "number"
    /\ v.tenths % 10 = 0
    /\ lo <= v.tenths \div 10
    /\ v.tenths \div 10 <= hi

GraphInBounds(g) ==
    /\ \A i \in DOMAIN g.nodes :
          /\ InRange(g.nodes[i].relevance, ScoreMin, ScoreMax)
          /\ InRange(g.nodes[i].popularity, ScoreMin, ScoreMax)
    /\ \A i \in DOMAIN g.links : InRange(g.links[i].value, WeightMin, WeightMax)

Node(id, r, p) == [id |-> id, group |-> 1, relevance |-> r, popularity |-> p]
Link(s, t, v) == [source |-> s, target |-> t, value |-> v]
ParsedGraph(r, p, v) ==
    [nodesIsArray |-> TRUE, nodes |-> <<Node("A", r, p), Node("B", p, r)>>,
     linksIsArray |-> TRUE, links |-> <<Link("A", "B", v)>>,
     summary |-> "worldview"]

----------------------------------------------------------------------------
(* Operations in flight *)

Req(name) == <<"request", name>>
Resp(name) == <<"response", name>>

\* One asynchronous operation: kind is analysis, generation or import; pc is
\* the await it is suspended at; events are the requests it sent and the
\* responses it received; reported are the percentages it passed to
\* onProgress; videos is the local variable of analyzeChannelContent.
Flow(kind, pc, events, reported, videos) ==
    [kind |-> kind, pc |-> pc, events |-> events, reported |-> reported,
     videos |-> videos]

Last(op, ev, cause) == [op |-> op, ev |-> ev, cause |-> cause]

Video(n) == [title |-> n, summary |-> "summary"]
\* the video arrays a parsed response or file can hold
VideoLists == {<<>>, <<Video("v1")>>}

\* tenths of a percent
Pct(p) == 10 * p

----------------------------------------------------------------------------
(* App: channel analysis (handleAnalyze and analyzeChannelContent) *)

\* startProgressSimulation(startAt, capAt) as called from an onProgress callback
OnProgress(p, cap) ==
    /\ progress' = Pct(p)
    /\ progressIntervalRef' = cap

\* the callback of window.setInterval: progress and the cap are in tenths of
\* a percent, the increment is cut to tenths and is never less than 0.1
TickValue(prev, capAt) ==
    IF prev >= capAt THEN prev
    ELSE MathMin(capAt, prev + MathMax(1, (capAt - prev) \div 50))

\* the interval timer fires (every 200 ms while it exists)
Tick ==
    /\ progressIntervalRef # 0
    /\ progress' = TickValue(progress, Pct(progressIntervalRef))
    /\ last' = Last("timer", "tick", "")
    /\ UNCHANGED <<url, appState, graphData, videoList, presentationData, error,
                   progressIntervalRef, flows>>

\* The model's answers to the graph request, as safeParse returns them.
ModelScores == {JsInt(7), JsInt(11)}
ModelGraphs == {ParsedGraph(r, r, r) : r \in ModelScores}

\* the form of the IDLE page is submitted
HandleAnalyze ==
    /\ appState = IDLE
    /\ url # ""
    /\ BagCardinality(flows) < MaxFlows
    /\ appState' = ANALYZING
    /\ error' = NoError
    /\ OnProgress(5, 98)
    /\ flows' = flows (+) SetToBag({Flow("analysis", "discovery", <<Req("discovery")>>, <<5>>, <<>>)})
    /\ last' = Last("analysis", "start", "")
    /\ UNCHANGED <<url, graphData, videoList, presentationData>>

\* a catch block that also clears the url field
CatchAnalyzeClearsUrl(f, cause) ==
    /\ error' = AnalysisFailedMsg
    /\ progressIntervalRef' = 0
    /\ appState' = IDLE
    /\ url' = ""
    /\ flows' = flows (-) SetToBag({f})
    /\ last' = Last("analysis", "failed", cause)
    /\ UNCHANGED <<graphData, videoList, presentationData>>

\* a catch block that sends the failed request once more
CatchAnalyzeRetries(f, cause) ==
    /\ error' = AnalysisFailedMsg
    /\ progressIntervalRef' = 0
    /\ appState' = IDLE
    /\ flows' = IF Len(f.events) < 8
                THEN (flows (-) SetToBag({f})) (+)
                     SetToBag({[f EXCEPT !.events = Append(@, Req(f.pc))]})
                ELSE flows (-) SetToBag({f})
    /\ last' = Last("analysis", "failed", cause)
    /\ UNCHANGED <<url, graphData, videoList, presentationData>>

\* a catch block whose banner shows the message of the error
CatchAnalyzeShowsCause(f, cause) ==
    /\ error' = cause
    /\ progressIntervalRef' = 0
    /\ appState' = IDLE
    /\ flows' = flows (-) SetToBag({f})
    /\ last' = Last("analysis", "failed", cause)
    /\ UNCHANGED <<url, graphData, videoList, presentationData>>

\* the catch block of handleAnalyze
CatchAnalyze(f, cause) ==
    /\ error' = AnalysisFailedMsg
    /\ progressIntervalRef' = 0
    /\ appState' = IDLE
    /\ flows' = flows (-) SetToBag({f})
    /\ last' = Last("analysis", "failed", cause)
    /\ UNCHANGED <<url, graphData, videoList, presentationData>>

\* a step that sends the next request without waiting for the response
ProceedWithoutResponse(f, from, to, p, vids) ==
    /\ OnProgress(p, 98)
    /\ flows' = (flows (-) SetToBag({f})) (+)
                SetToBag({Flow("analysis", to, Append(f.events, Req(to)),
                               Append(f.reported, p), vids)})
    /\ last' = Last("analysis", "progress", to)
    /\ UNCHANGED <<url, appState, graphData, videoList, presentationData, error>>

\* a step of analyzeChannelContent that reports progress and sends the next request
Proceed(f, from, to, p, vids) ==
    /\ OnProgress(p, 98)
    /\ flows' = (flows (-) SetToBag({f})) (+)
                SetToBag({Flow("analysis", to,
                               f.events \o <<Resp(from), Req(to)>>,
                               Append(f.reported, p), vids)})
    /\ last' = Last("analysis", "progress", to)
    /\ UNCHANGED <<url, appState, graphData, videoList, presentationData, error>>

DiscoveryResponse(f) ==
    /\ f.kind = "analysis" /\ f.pc = "discovery"
    /\ \/ Proceed(f, "discovery", "analysis", 25, f.videos)
       \/ /\ CatchAnalyze(f, "discovery request rejected")
          /\ UNCHANGED progress

DeepAnalysisResponse(f) ==
    /\ f.kind = "analysis" /\ f.pc = "analysis"
    /\ \/ Proceed(f, "analysis", "videos", 60, f.videos)
       \/ /\ CatchAnalyze(f, "analysis request rejected")
          /\ UNCHANGED progress
       \/ \* the response has no text: onProgress(60) runs, fullAnalysis.slice throws
          /\ CatchAnalyze(f, "analysis response without text")
          /\ progress' = Pct(60)

VideoListResponse(f) ==
    /\ f.kind = "analysis" /\ f.pc = "videos"
    /\ \/ \E vids \in VideoLists : Proceed(f, "videos", "graph", 80, vids)
       \/ /\ CatchAnalyze(f, "video request rejected")
          /\ UNCHANGED progress
       \/ /\ CatchAnalyze(f, VideoParseFailedMsg)
          /\ UNCHANGED progress

\* setVideoList, setGraphData, stopProgressSimulation, setProgress(100), setTimeout
AnalyzeSucceeds(f, graph) ==
    /\ videoList' = f.videos
    /\ graphData' = graph
    /\ progressIntervalRef' = 0
    /\ progress' = Pct(100)
    /\ flows' = (flows (-) SetToBag({f})) (+)
                SetToBag({Flow("analysis", "timer", Append(f.events, Resp("graph")),
                               Append(f.reported, 95), f.videos)})
    /\ last' = Last("analysis", "succeeded", "")
    /\ UNCHANGED <<url, appState, presentationData, error>>

GraphResponse(f) ==
    /\ f.kind = "analysis" /\ f.pc = "graph"
    /\ \/ \E parsed \in ModelGraphs : AnalyzeSucceeds(f, SanitizeGraph(parsed))
       \/ /\ CatchAnalyze(f, "graph request rejected")
          /\ UNCHANGED progress
       \/ \* onProgress(95) has run when the parse fails or no nodes array is found
          /\ CatchAnalyze(f, "Failed to construct topic graph. The model output was malformed.")
          /\ progress' = Pct(95)

\* setTimeout(() => setAppState(AppState.DASHBOARD), 500)
AnalyzeTimeout(f) ==
    /\ f.kind = "analysis" /\ f.pc = "timer"
    /\ appState' = DASHBOARD
    /\ flows' = flows (-) SetToBag({f})
    /\ last' = Last("analysis", "timer", "")
    /\ UNCHANGED <<url, graphData, videoList, presentationData, error, progress,
                   progressIntervalRef>>

----------------------------------------------------------------------------
(* App: presentation generation (handleGeneratePresentation and generateRebuttal) *)

\* the decks generateRebuttal can return, by their number of slides
Presentations == {[slides |-> n] : n \in 0..MaxSlides}

\* the button of the dashboard is clicked
HandleGeneratePresentation ==
    /\ appState = DASHBOARD
    /\ graphData # Null
    /\ Len(videoList) > 0
    /\ BagCardinality(flows) < MaxFlows
    /\ appState' = GENERATING_SLIDES
    /\ OnProgress(10, 95)
    /\ flows' = flows (+) SetToBag({Flow("generation", "rebuttal", <<Req("rebuttal")>>, <<10>>, <<>>)})
    /\ last' = Last("generation", "start", "")
    /\ UNCHANGED <<url, graphData, videoList, presentationData, error>>

\* a catch block that forgets setAppState(AppState.DASHBOARD)
CatchGenerateStays(f, cause) ==
    /\ error' = GenerationFailedMsg
    /\ progressIntervalRef' = 0
    /\ flows' = flows (-) SetToBag({f})
    /\ last' = Last("generation", "failed", cause)
    /\ UNCHANGED <<url, appState, graphData, videoList, presentationData>>

\* the catch block of handleGeneratePresentation
CatchGenerate(f, cause) ==
    /\ error' = GenerationFailedMsg
    /\ progressIntervalRef' = 0
    /\ appState' = DASHBOARD
    /\ flows' = flows (-) SetToBag({f})
    /\ last' = Last("generation", "failed", cause)
    /\ UNCHANGED <<url, graphData, videoList, presentationData>>

\* a completion that also empties the video list
GenerateSucceedsClearsVideos(f, slides) ==
    /\ presentationData' = slides
    /\ videoList' = <<>>
    /\ progressIntervalRef' = 0
    /\ progress' = Pct(100)
    /\ flows' = (flows (-) SetToBag({f})) (+)
                SetToBag({Flow("generation", "timer", Append(f.events, Resp("rebuttal")),
                               Append(f.reported, 90), f.videos)})
    /\ last' = Last("generation", "succeeded", "")
    /\ UNCHANGED <<url, appState, graphData, error>>

\* setPresentationData, stopProgressSimulation, setProgress(100), setTimeout
GenerateSucceeds(f, slides) ==
    /\ presentationData' = slides
    /\ progressIntervalRef' = 0
    /\ progress' = Pct(100)
    /\ flows' = (flows (-) SetToBag({f})) (+)
                SetToBag({Flow("generation", "timer", Append(f.events, Resp("rebuttal")),
                               Append(f.reported, 90), f.videos)})
    /\ last' = Last("generation", "succeeded", "")
    /\ UNCHANGED <<url, appState, graphData, videoList, error>>

RebuttalResponse(f) ==
    /\ f.kind = "generation" /\ f.pc = "rebuttal"
    /\ \/ \E slides \in Presentations : GenerateSucceeds(f, slides)
       \/ /\ CatchGenerate(f, "rebuttal request rejected")
          /\ UNCHANGED progress
       \/ \* onProgress(90) has run when the parse fails or no slides array is found
          /\ CatchGenerate(f, "Failed to generate presentation. The analysis was too complex for the output window. Please try again.")
          /\ progress' = Pct(90)

\* setTimeout(() => setAppState(AppState.PRESENTATION), 500)
GenerateTimeout(f) ==
    /\ f.kind = "generation" /\ f.pc = "timer"
    /\ appState' = PRESENTATION
    /\ flows' = flows (-) SetToBag({f})
    /\ last' = Last("generation", "timer", "")
    /\ UNCHANGED <<url, graphData, videoList, presentationData, error, progress,
                   progressIntervalRef>>

----------------------------------------------------------------------------
(* App: import of an exported file (handleImport) *)

FileGraph(r) ==
    [nodes |-> <<Node("A", r, r), Node("B", r, r)>>, links |-> <<Link("A", "B", r)>>,
     summary |-> "worldview"]
\* the score and weight values of the files offered to the import
FileScores == {JsInt(3), JsInt(50)}
\* a file that parses and holds graph and videos; url "" is a file without meta.url
Files == {[url |-> u, graph |-> FileGraph(r), videos |-> v] :
            u \in {"", OtherUrl}, r \in FileScores, v \in VideoLists}

\* a file is chosen in the file dialog of the IDLE page
HandleImport ==
    /\ appState = IDLE
    /\ BagCardinality(flows) < MaxFlows
    /\ appState' = ANALYZING
    /\ progress' = Pct(50)
    /\ flows' = flows (+) SetToBag({Flow("import", "reading", <<>>, <<>>, <<>>)})
    /\ last' = Last("import", "start", "")
    /\ UNCHANGED <<url, graphData, videoList, presentationData, error, progressIntervalRef>>

\* the catch block of reader.onload
CatchImport(f, message) ==
    /\ error' = message
    /\ appState' = IDLE
    /\ flows' = flows (-) SetToBag({f})
    /\ last' = Last("import", "failed", message)
    /\ UNCHANGED <<url, graphData, videoList, presentationData, progress,
                   progressIntervalRef>>

ImportSucceeds(f, file) ==
    /\ url' = IF file.url # "" THEN file.url ELSE url
    /\ graphData' = file.graph
    /\ videoList' = file.videos
    /\ progress' = Pct(100)
    /\ flows' = (flows (-) SetToBag({f})) (+)
                SetToBag({Flow("import", "timer", <<>>, <<>>, <<>>)})
    /\ last' = Last("import", "succeeded", "")
    /\ UNCHANGED <<appState, presentationData, error, progressIntervalRef>>

\* reader.onload
FileLoaded(f) ==
    /\ f.kind = "import" /\ f.pc = "reading"
    /\ \/ \E file \in Files : ImportSucceeds(f, file)
       \/ CatchImport(f, ImportSyntaxMsg)
       \/ CatchImport(f, ImportMissingMsg)

\* the read fails: the reader has no onerror handler and onload is never called
FileReadFails(f) ==
    /\ f.kind = "import" /\ f.pc = "reading"
    /\ flows' = flows (-) SetToBag({f})
    /\ last' = Last("import", "read error", "")
    /\ UNCHANGED <<url, appState, graphData, videoList, presentationData, error,
                   progress, progressIntervalRef>>

\* setTimeout(() => setAppState(AppState.DASHBOARD), 800)
ImportTimeout(f) ==
    /\ f.kind = "import" /\ f.pc = "timer"
    /\ appState' = DASHBOARD
    /\ flows' = flows (-) SetToBag({f})
    /\ last' = Last("import", "timer", "")
    /\ UNCHANGED <<url, graphData, videoList, presentationData, error, progress,
                   progressIntervalRef>>

----------------------------------------------------------------------------
(* App: export to a file (handleExport) and the file format *)

\* the node and link objects that handleExport writes
CleanNode(n) ==
    [id |-> n.id, group |-> n.group, relevance |-> n.relevance,
     popularity |-> n.popularity, desc |-> "", longDescription |-> ""]
CleanLink(l) == [source |-> l.source, target |-> l.target, value |-> l.value]

\* cleanGraph: { ...graphData, nodes: ..., links: ... }
CleanGraph(g) ==
    [g EXCEPT !.nodes = [i \in DOMAIN g.nodes |-> CleanNode(g.nodes[i])],
              !.links = [i \in DOMAIN g.links |-> CleanLink(g.links[i])]]

\* exportData
ExportData(u, vids, g) ==
    [meta |-> [timestamp |-> "now", url |-> u], videos |-> vids, graph |-> CleanGraph(g)]

\* A value of a TOML document: a string, an integer or a float (in tenths).
TomlString(x) == [toml |-> "string", text |-> x]
TomlInteger(n) == [toml |-> "integer", n |-> n]
TomlFloat(t) == [toml |-> "float", tenths |-> t]

\* how stringify writes a score or weight
TomlOfJs(v) ==
    IF v.t = "number"
    THEN IF v.tenths % 10 = 0 THEN TomlInteger(v.tenths \div 10) ELSE TomlFloat(v.tenths)
    ELSE TomlString(v)

\* how parse reads it back
JsOfToml(x) ==
    IF x.toml = "integer" THEN JsNum(10 * x.n)
    ELSE IF x.toml = "float" THEN JsNum(x.tenths)
    ELSE x.text

\* stringify(exportData): tables and arrays keep their shape and order,
\* every leaf becomes a TOML value
TomlStringify(data) ==
    [meta |-> [timestamp |-> TomlString(data.meta.timestamp), url |-> TomlString(data.meta.url)],
     videos |-> [i \in DOMAIN data.videos |->
                   [title |-> TomlString(data.videos[i].title),
                    summary |-> TomlString(data.videos[i].summary)]],
     graph |-> [nodes |-> [i \in DOMAIN data.graph.nodes |->
                   LET n == data.graph.nodes[i]
                   IN  [id |-> TomlString(n.id), group |-> TomlInteger(n.group),
                        relevance |-> TomlOfJs(n.relevance),
                        popularity |-> TomlOfJs(n.popularity),
                        desc |-> TomlString(n.desc),
                        longDescription |-> TomlString(n.longDescription)]],
                links |-> [i \in DOMAIN data.graph.links |->
                   LET l == data.graph.links[i]
                   IN  [source |-> TomlString(l.source), target |-> TomlString(l.target),
                        value |-> TomlOfJs(l.value)]],
                summary |-> TomlString(data.graph.summary)]]

\* parse(text), as the record handleImport reads: url is data.meta?.url
TomlParse(doc) ==
    [url |-> doc.meta.url.text,
     videos |-> [i \in DOMAIN doc.videos |->
                   [title |-> doc.videos[i].title.text, summary |-> doc.videos[i].summary.text]],
     graph |-> [nodes |-> [i \in DOMAIN doc.graph.nodes |->
                   LET n == doc.graph.nodes[i]
                   IN  [id |-> n.id.text, group |-> n.group.n,
                        relevance |-> JsOfToml(n.relevance),
                        popularity |-> JsOfToml(n.popularity),
                        desc |-> n.desc.text, longDescription |-> n.longDescription.text]],
                links |-> [i \in DOMAIN doc.graph.links |->
                   LET l == doc.graph.links[i]
                   IN  [source |-> l.source.text, target |-> l.target.text,
                        value |-> JsOfToml(l.value)]],
                summary |-> doc.graph.summary.text]]

\* the export button of the dashboard is clicked; the file goes to the disk
\* of the user and no state of App changes
HandleExport ==
    /\ appState = DASHBOARD
    /\ graphData # Null
    /\ last' = Last("export", "", "")
    /\ UNCHANGED appVars

----------------------------------------------------------------------------
(* App: the remaining handlers *)

\* the logo of the navigation bar is clicked
Reset ==
    /\ appState' = IDLE
    /\ graphData' = Null
    /\ videoList' = <<>>
    /\ presentationData' = Null
    /\ error' = NoError
    /\ progressIntervalRef' = 0
    /\ last' = Last("reset", "", "")
    /\ UNCHANGED <<url, progress, flows>>

\* the url field of the IDLE page is edited
SetUrl(u) ==
    /\ appState = IDLE
    /\ u # url
    /\ url' = u
    /\ last' = Last("url", "", "")
    /\ UNCHANGED <<appState, graphData, videoList, presentationData, error, progress,
                   progressIntervalRef, flows>>

\* appState === AppState.PRESENTATION && presentationData: the view is rendered
Mounted(app, pres) == app = PRESENTATION /\ pres # Null

\* onClose of the presentation view
ClosePresentation ==
    /\ Mounted(appState, presentationData)
    /\ appState' = DASHBOARD
    /\ last' = Last("view", "close", "")
    /\ UNCHANGED <<url, graphData, videoList, presentationData, error, progress,
                   progressIntervalRef, flows>>

----------------------------------------------------------------------------
(* PresentationView *)

NoView == [idx |-> 0, images |-> {}, loadingImage |-> FALSE]
ImageReq(i) == [slide |-> i, live |-> TRUE]
\* a request whose component was unmounted: its continuation updates nothing
StaleReq == [slide |-> 0, live |-> FALSE]

Abandoned(reqs) ==
    IF BagCardinality(reqs) = 0 THEN EmptyBag
    ELSE [r \in {StaleReq} |-> BagCardinality(reqs)]

\* the loadVisual effect, run for the state v of the view
LoadVisual(v, reqs) ==
    IF v.idx \in v.images
    THEN [view |-> v, reqs |-> reqs]
    ELSE [view |-> [v EXCEPT !.loadingImage = TRUE],
          reqs |-> reqs (+) SetToBag({ImageReq(v.idx)})]

\* What rendering App with the new appState and presentationData does to the
\* presentation view: mount (and run its effect), unmount, or new props.
Render(app2, pres2) ==
    LET keep == [view |-> view, reqs |-> imgReqs, crashed |-> FALSE]
        gone == [view |-> NoView, reqs |-> Abandoned(imgReqs), crashed |-> FALSE]
        run(v) == LET e == LoadVisual(v, imgReqs)
                  IN  [view |-> e.view, reqs |-> e.reqs, crashed |-> FALSE]
    IN  IF ~Mounted(app2, pres2) THEN gone
        ELSE IF ~Mounted(appState, presentationData)
        THEN IF pres2.slides = 0 THEN gone ELSE run(NoView)
        ELSE IF pres2 = presentationData THEN keep
        ELSE IF (pres2.slides = 0) # (presentationData.slides = 0)
        THEN [gone EXCEPT !.crashed = TRUE]
        ELSE IF view.idx >= pres2.slides THEN [gone EXCEPT !.crashed = TRUE]
        ELSE run(view)

\* the render of the view that follows a step of App
RenderView ==
    LET r == Render(appState', presentationData')
    IN  /\ BagCardinality(r.reqs) <= MaxImageRequests
        /\ view' = r.view
        /\ imgReqs' = r.reqs
        /\ crashed' = r.crashed

\* setCurrentSlideIndex and the effect of the render that follows
ShowSlide(i) ==
    LET e == LoadVisual([view EXCEPT !.idx = i], imgReqs)
    IN  /\ BagCardinality(e.reqs) <= MaxImageRequests
        /\ view' = e.view
        /\ imgReqs' = e.reqs

nextSlide ==
    /\ Mounted(appState, presentationData)
    /\ presentationData.slides > 0
    /\ view.idx < presentationData.slides - 1
    /\ ShowSlide(view.idx + 1)
    /\ last' = Last("view", "next", "")
    /\ UNCHANGED <<appVars, crashed>>

prevSlide ==
    /\ Mounted(appState, presentationData)
    /\ presentationData.slides > 0
    /\ view.idx > 0
    /\ ShowSlide(view.idx - 1)
    /\ last' = Last("view", "previous", "")
    /\ UNCHANGED <<appVars, crashed>>

\* the continuation of await generateSlideImage(...) in loadVisual
ImageResponse(r) ==
    /\ BagIn(r, imgReqs)
    /\ \/ \* an image came back
          /\ r.live
          /\ LET v == [view EXCEPT !.images = @ \cup {r.slide}, !.loadingImage = FALSE]
                 e == LoadVisual(v, imgReqs (-) SetToBag({r}))
             IN  /\ view' = e.view
                 /\ imgReqs' = e.reqs
       \/ \* generateSlideImage returned null
          /\ r.live
          /\ view' = [view EXCEPT !.loadingImage = FALSE]
          /\ imgReqs' = imgReqs (-) SetToBag({r})
       \/ \* the view that asked is unmounted
          /\ ~r.live
          /\ imgReqs' = imgReqs (-) SetToBag({r})
          /\ UNCHANGED view
    /\ last' = Last("view", "image", "")
    /\ UNCHANGED <<appVars, crashed>>

----------------------------------------------------------------------------
(* The page controller: every handler and callback of App *)

\* the state App is constructed in
AppIdle ==
    /\ url = DEFAULT_CHANNEL_URL
    /\ appState = IDLE
    /\ graphData = Null
    /\ videoList = <<>>
    /\ presentationData = Null
    /\ error = NoError
    /\ progress = 0
    /\ progressIntervalRef = 0
    /\ flows = EmptyBag
    /\ view = NoView
    /\ imgReqs = EmptyBag
    /\ crashed = FALSE
    /\ last = Last("none", "", "")

Init ==
    /\ AppIdle
    /\ pin = <<>>
    /\ pout = <<>>

AnalysisStep(f) ==
    \/ DiscoveryResponse(f)
    \/ DeepAnalysisResponse(f)
    \/ VideoListResponse(f)
    \/ GraphResponse(f)
    \/ AnalyzeTimeout(f)

GenerationStep(f) ==
    \/ RebuttalResponse(f)
    \/ GenerateTimeout(f)

ImportStep(f) ==
    \/ FileLoaded(f)
    \/ FileReadFails(f)
    \/ ImportTimeout(f)

\* The presentation view keeps its state to itself and calls App only
\* through onClose, so the controller is checked with the view left out.
ViewLeftOut == UNCHANGED <<view, imgReqs, crashed, pin, pout>>

Next ==
    \/ HandleAnalyze /\ ViewLeftOut
    \/ HandleGeneratePresentation /\ ViewLeftOut
    \/ HandleImport /\ ViewLeftOut
    \/ Reset /\ ViewLeftOut
    \/ \E u \in TypedUrls : SetUrl(u) /\ ViewLeftOut
    \/ ClosePresentation /\ ViewLeftOut
    \/ HandleExport /\ ViewLeftOut
    \/ \E f \in BagToSet(flows) : AnalysisStep(f) /\ ViewLeftOut
    \/ \E f \in BagToSet(flows) : GenerationStep(f) /\ ViewLeftOut
    \/ \E f \in BagToSet(flows) : ImportStep(f) /\ ViewLeftOut

Spec == Init /\ [][Next]_vars

\* The controller where every request, file read and timeout that is pending
\* eventually completes; what the user does is never forced.
SpecLive ==
    /\ Init
    /\ [][Next]_vars
    /\ WF_vars(\E f \in BagToSet(flows) : AnalysisStep(f) /\ ViewLeftOut)
    /\ WF_vars(\E f \in BagToSet(flows) : GenerationStep(f) /\ ViewLeftOut)
    /\ WF_vars(\E f \in BagToSet(flows) : ImportStep(f) /\ ViewLeftOut)

----------------------------------------------------------------------------
(* The presentation view inside the page: import, generation, the view *)

\* a step of App and the render of the view that follows it
Rendered == ~crashed /\ RenderView /\ UNCHANGED <<pin, pout>>
\* a step of the view
Inside == ~crashed /\ UNCHANGED <<pin, pout>>

NextView ==
    \/ HandleImport /\ Rendered
    \/ HandleGeneratePresentation /\ Rendered
    \/ Reset /\ Rendered
    \/ ClosePresentation /\ Rendered
    \/ \E f \in BagToSet(flows) : GenerationStep(f) /\ Rendered
    \/ \E f \in BagToSet(flows) : ImportStep(f) /\ Rendered
    \/ nextSlide /\ Inside
    \/ prevSlide /\ Inside
    \/ \E r \in BagToSet(imgReqs) : ImageResponse(r) /\ Inside

SpecView == Init /\ [][NextView]_vars

----------------------------------------------------------------------------
(* safeParse: JSON.parse, one repair pass, JSON.parse again *)

\* A JavaScript string is a sequence of its characters. The structural
\* characters of JSON, the quote, the backslash, a digit, a letter, a space:
Alphabet == {"{", "}", "[", "]", "\"", "\\", ":", ",", "1", "a", " "}

\* the longest text of the exhaustive inputs
MaxLen == 4

Str(n) == UNION {[1..k -> Alphabet] : k \in 0..n}

\* JSON documents as the model returns them when it is not cut off
Docs == {
    <<"{", "\"", "a", "\"", ":", "\"", "1", "\\", "\"", "a", "\"", "}">>,
    <<"[", "1", ",", "{", "\"", "a", "\"", ":", "[", "1", ",", "1", "]", "}", "]">>,
    <<"{", "\"", "a", "\"", ":", "1", ",", " ", "\"", "a", "1", "\"", ":", "\"", "a", " ", "}", "\"", "}">>
}

\* a document cut off after n characters
Truncations == UNION {{SubSeq(d, 1, n) : n \in 1..Len(d)} : d \in Docs}

RECURSIVE SkipWs(_, _)
SkipWs(s, i) == IF i <= Len(s) /\ s[i] = " " THEN SkipWs(s, i + 1) ELSE i

\* Each P... operator reads one construct of the JSON grammar that starts at
\* position i and gives the position after it, or -1 when there is none.
RECURSIVE PStrBody(_, _)
PStrBody(s, i) ==
    IF i > Len(s) THEN -1
    ELSE IF s[i] = "\"" THEN i + 1
    ELSE IF s[i] = "\\"
         THEN IF i + 1 <= Len(s) /\ s[i + 1] \in {"\"", "\\"} THEN PStrBody(s, i + 2) ELSE -1
    ELSE PStrBody(s, i + 1)

RECURSIVE PDigits(_, _)
PDigits(s, i) == IF i <= Len(s) /\ s[i] = "1" THEN PDigits(s, i + 1) ELSE i

RECURSIVE PValue(_, _), PMembers(_, _), PElements(_, _)
PValue(s, i) ==
    LET j == SkipWs(s, i)
    IN  IF j > Len(s) THEN -1
        ELSE IF s[j] = "\"" THEN PStrBody(s, j + 1)
        ELSE IF s[j] = "1" THEN PDigits(s, j + 1)
        ELSE IF s[j] = "{"
             THEN LET k == SkipWs(s, j + 1)
                  IN  IF k <= Len(s) /\ s[k] = "}" THEN k + 1 ELSE PMembers(s, k)
        ELSE IF s[j] = "["
             THEN LET k == SkipWs(s, j + 1)
                  IN  IF k <= Len(s) /\ s[k] = "]" THEN k + 1 ELSE PElements(s, k)
        ELSE -1

\* "key" : value, then a comma and more members, or the closing brace
PMembers(s, i) ==
    IF i > Len(s) \/ s[i] # "\"" THEN -1
    ELSE LET k == PStrBody(s, i + 1)
             c == IF k = -1 THEN -1 ELSE SkipWs(s, k)
             v == IF c = -1 \/ c > Len(s) \/ s[c] # ":" THEN -1 ELSE PValue(s, c + 1)
             e == IF v = -1 THEN -1 ELSE SkipWs(s, v)
         IN  IF e = -1 \/ e > Len(s) THEN -1
             ELSE IF s[e] = "}" THEN e + 1
             ELSE IF s[e] = "," THEN PMembers(s, SkipWs(s, e + 1))
             ELSE -1

\* value, then a comma and more elements, or the closing bracket
PElements(s, i) ==
    LET v == PValue(s, i)
        e == IF v = -1 THEN -1 ELSE SkipWs(s, v)
    IN  IF e = -1 \/ e > Len(s) THEN -1
        ELSE IF s[e] = "]" THEN e + 1
        ELSE IF s[e] = "," THEN PElements(s, e + 1)
        ELSE -1

\* JSON.parse(s) does not throw
JsonParses(s) ==
    LET v == PValue(s, 1)
    IN  v # -1 /\ SkipWs(s, v) = Len(s) + 1

RECURSIVE TrimStart(_)
TrimStart(s) == IF Len(s) > 0 /\ s[1] = " " THEN TrimStart(Tail(s)) ELSE s
RECURSIVE TrimEnd(_)
TrimEnd(s) == IF Len(s) > 0 /\ s[Len(s)] = " " THEN TrimEnd(SubSeq(s, 1, Len(s) - 1)) ELSE s
Trim(s) == TrimEnd(TrimStart(s))

\* (repaired.match(/"/g) || []).length
QuoteCount(s) == Cardinality({i \in DOMAIN s : s[i] = "\""})

\* /\\"$/.test(repaired)
IsLastQuoteEscaped(s) == Len(s) >= 2 /\ s[Len(s) - 1] = "\\" /\ s[Len(s)] = "\""

\* step 1 of the repair: close an unclosed string
CloseString(s) ==
    IF QuoteCount(s) % 2 # 0 /\ ~IsLastQuoteEscaped(s) THEN Append(s, "\"") ELSE s

\* step 2 of the repair: the scan that builds the stack of expected closers;
\* st is [stack, inString, escape] before character i
RECURSIVE Scan(_, _, _)
Scan(s, i, st) ==
    IF i > Len(s) THEN st.stack
    ELSE LET char == s[i]
             inString == IF char = "\"" /\ ~st.escape THEN ~st.inString ELSE st.inString
             stack == IF inString THEN st.stack
                      ELSE IF char = "{" THEN Append(st.stack, "}")
                      ELSE IF char = "[" THEN Append(st.stack, "]")
                      ELSE IF char \in {"}", "]"} /\ Len(st.stack) > 0
                              /\ st.stack[Len(st.stack)] = char
                           THEN SubSeq(st.stack, 1, Len(st.stack) - 1)
                      ELSE st.stack
             escape == IF char = "\\" THEN ~st.escape ELSE FALSE
         IN  Scan(s, i + 1, [stack |-> stack, inString |-> inString, escape |-> escape])

Reverse(q) == [i \in 1..Len(q) |-> q[Len(q) + 1 - i]]

\* the repair pass: trim, close the string, append the missing closers
Repair(jsonString) ==
    LET repaired == CloseString(Trim(jsonString))
        stack == Scan(repaired, 1, [stack |-> <<>>, inString |-> FALSE, escape |-> FALSE])
    IN  repaired \o Reverse(stack)

\* safeParse as it runs: pc is where it stands, text the text it holds,
\* attempts and repairs count the calls of JSON.parse and the repair passes,
\* value is the text whose parse is returned, thrown the attempt whose
\* error is thrown (0: none).
ParseState(pc, text, attempts, repairs, value, thrown) ==
    [pc |-> pc, text |-> text, attempts |-> attempts, repairs |-> repairs,
     value |-> value, thrown |-> thrown]

\* try { return JSON.parse(jsonString) } catch (e) { ... }
FirstAttempt ==
    /\ pout.pc = "try"
    /\ pout' = IF JsonParses(pin)
               THEN ParseState("returned", pin, 1, 0, pin, 0)
               ELSE ParseState("repair", pin, 1, 0, <<>>, 0)
    /\ UNCHANGED pin

RepairPass ==
    /\ pout.pc = "repair"
    /\ pout' = ParseState("retry", Repair(pout.text), pout.attempts, pout.repairs + 1, <<>>, 0)
    /\ UNCHANGED pin

\* a second attempt that throws its own error e2
SecondAttemptThrowsOwn ==
    /\ pout.pc = "retry"
    /\ pout' = IF JsonParses(pout.text)
               THEN ParseState("returned", pout.text, pout.attempts + 1, pout.repairs, pout.text, 0)
               ELSE ParseState("thrown", pout.text, pout.attempts + 1, pout.repairs, <<>>, 2)
    /\ UNCHANGED pin

\* try { return JSON.parse(repaired) } catch (e2) { throw e }
SecondAttempt ==
    /\ pout.pc = "retry"
    /\ pout' = IF JsonParses(pout.text)
               THEN ParseState("returned", pout.text, pout.attempts + 1, pout.repairs, pout.text, 0)
               ELSE ParseState("thrown", pout.text, pout.attempts + 1, pout.repairs, <<>>, 1)
    /\ UNCHANGED pin

InitParse ==
    /\ AppIdle
    /\ pin \in Str(MaxLen) \cup Truncations
    /\ pout = ParseState("try", pin, 0, 0, <<>>, 0)

NextParse ==
    \/ FirstAttempt /\ UNCHANGED <<appVars, viewVars, last>>
    \/ RepairPass /\ UNCHANGED <<appVars, viewVars, last>>
    \/ SecondAttempt /\ UNCHANGED <<appVars, viewVars, last>>

SpecParse == InitParse /\ [][NextParse]_vars

----------------------------------------------------------------------------
(* The sanitization pass on its own, over the values a parsed field can hold *)

\* scores from -RawSpan/2 to 3*RawSpan/2, in steps of one half
RawSpan == 6

RawValues ==
    {JsMissing, JsText, JsNumStr(0), JsNumStr(70), JsNumStr(110)}
        \cup {JsNum(5 * k) : k \in -RawSpan..(3 * RawSpan)}

ParsedGraphs ==
    {[ParsedGraph(r, p, v) EXCEPT !.linksIsArray = la,
                                  !.links = IF la THEN @ ELSE <<>>,
                                  !.summary = sm]
        : r \in RawValues, p \in {JsMissing, JsInt(0), JsInt(11)}, v \in RawValues,
          la \in BOOLEAN, sm \in {"", "worldview"}}
    \cup {[nodesIsArray |-> FALSE, nodes |-> <<>>, linksIsArray |-> la, links |-> <<>>,
           summary |-> ""] : la \in BOOLEAN}

\* if (!parsedGraph.nodes || !Array.isArray(parsedGraph.nodes)) throw
GraphRejected ==
    /\ pout.pc = "parsed"
    /\ ~pin.nodesIsArray
    /\ pout' = [pc |-> "thrown", graph |-> Null]
    /\ UNCHANGED pin

GraphReturned ==
    /\ pout.pc = "parsed"
    /\ pin.nodesIsArray
    /\ pout' = [pc |-> "returned", graph |-> SanitizeGraph(pin)]
    /\ UNCHANGED pin

InitSanitize ==
    /\ AppIdle
    /\ pin \in ParsedGraphs
    /\ pout = [pc |-> "parsed", graph |-> Null]

NextSanitize ==
    \/ GraphRejected /\ UNCHANGED <<appVars, viewVars, last>>
    \/ GraphReturned /\ UNCHANGED <<appVars, viewVars, last>>

SpecSanitize == InitSanitize /\ [][NextSanitize]_vars

----------------------------------------------------------------------------
(* The controller with its progress timer *)

NextProgress ==
    \/ HandleAnalyze /\ ViewLeftOut
    \/ HandleGeneratePresentation /\ ViewLeftOut
    \/ HandleImport /\ ViewLeftOut
    \/ Reset /\ ViewLeftOut
    \/ Tick /\ ViewLeftOut
    \/ \E f \in BagToSet(flows) : AnalysisStep(f) /\ ViewLeftOut
    \/ \E f \in BagToSet(flows) : GenerationStep(f) /\ ViewLeftOut
    \/ \E f \in BagToSet(flows) : ImportStep(f) /\ ViewLeftOut

SpecProgress == Init /\ [][NextProgress]_vars

----------------------------------------------------------------------------
(* Export and import of the exported file, from any dashboard *)

NoFile == [written |-> FALSE]

\* the graphs a dashboard can show: from an analysis or from a file
DashboardGraphs ==
    {SanitizeGraph(parsed) : parsed \in ModelGraphs} \cup {FileGraph(r) : r \in FileScores}

\* export, keeping the file written (pout) and what the dashboard showed (pin);
\* one file is exported and later chosen in the file dialog
ExportFile ==
    /\ pout = NoFile
    /\ HandleExport
    /\ pout' = [written |-> TRUE, doc |-> TomlStringify(ExportData(url, videoList, graphData))]
    /\ pin' = [url |-> url, videoList |-> videoList, graphData |-> graphData]

\* reader.onload for the exported file
ExportedFileLoaded(f) ==
    /\ f.kind = "import" /\ f.pc = "reading"
    /\ pout # NoFile
    /\ LET data == TomlParse(pout.doc)
       IN  ImportSucceeds(f, data)

InitFile ==
    /\ url \in TypedUrls
    /\ appState = DASHBOARD
    /\ graphData \in DashboardGraphs
    /\ videoList \in VideoLists
    /\ presentationData = Null
    /\ error = NoError
    /\ progress = Pct(100)
    /\ progressIntervalRef = 0
    /\ flows = EmptyBag
    /\ view = NoView
    /\ imgReqs = EmptyBag
    /\ crashed = FALSE
    /\ last = Last("none", "", "")
    /\ pin = NoFile
    /\ pout = NoFile

FileKept == UNCHANGED <<viewVars, pin, pout>>

NextFile ==
    \/ ExportFile /\ UNCHANGED viewVars
    \/ Reset /\ FileKept
    \/ \E u \in TypedUrls : SetUrl(u) /\ FileKept
    \/ HandleImport /\ pout # NoFile /\ FileKept
    \/ \E f \in BagToSet(flows) : ExportedFileLoaded(f) /\ FileKept
    \/ \E f \in BagToSet(flows) : ImportTimeout(f) /\ FileKept

SpecFile == InitFile /\ [][NextFile]_vars

----------------------------------------------------------------------------
(* ForceGraph: the component that draws graphData *)

\* An id as import or analysis delivers it: the number 1, the string "1", or
\* another string; String(id) is its text.
NumId(x) == [num |-> TRUE, text |-> x]
StrId(x) == [num |-> FALSE, text |-> x]
\* an end of a link: an id, or an object holding one (typeof === 'object')
Plain(id) == [obj |-> FALSE, id |-> id]
Object(id) == [obj |-> TRUE, id |-> id]

\* typeof d.source === 'object' ? String(d.source.id) : String(d.source)
EndText(e) == e.id.text

\* the most nodes and links of the data sets drawn
MaxNodes == 2
MaxLinks == 2

NodeIds == {NumId("1"), StrId("A")}
LinkEnds == {Plain(NumId("1")), Plain(StrId("1")), Object(StrId("A")), Plain(StrId("Z"))}

SeqsUpTo(S, n) == UNION {[1..k -> S] : k \in 0..n}

GraphInputs ==
    {[nodes |-> [i \in DOMAIN ids |-> Node(ids[i], JsInt(5), JsInt(5))],
      links |-> [i \in DOMAIN ends |-> Link(ends[i][1], ends[i][2], JsInt(3))],
      summary |-> "worldview"]
        : ids \in SeqsUpTo(NodeIds, MaxNodes),
          ends \in SeqsUpTo(LinkEnds \X LinkEnds, MaxLinks)}

\* the data sets a later render can bring: none, unlinked, linked
LaterGraphs ==
    {g \in GraphInputs :
        \/ Len(g.nodes) = 0 /\ Len(g.links) = 0
        \/ /\ Len(g.nodes) = 2 /\ g.nodes[1].id = NumId("1") /\ g.nodes[2].id = StrId("A")
           /\ \/ Len(g.links) = 0
              \/ /\ Len(g.links) = 1
                 /\ g.links[1].source = Plain(StrId("1"))
                 /\ g.links[1].target = Object(StrId("A"))}

\* validNodeIds
ValidNodeIds(data) == {data.nodes[i].id.text : i \in DOMAIN data.nodes}

\* a filter that looks at the source only
SimulationLinksBySource(data) ==
    LET mapped == [i \in DOMAIN data.links |->
                      [data.links[i] EXCEPT !.source = EndText(@), !.target = EndText(@)]]
        valid(d) == d.source \in ValidNodeIds(data)
    IN  SelectSeq(mapped, valid)

\* links: data.links.map(...).filter(...)
SimulationLinks(data) ==
    LET mapped == [i \in DOMAIN data.links |->
                      [data.links[i] EXCEPT !.source = EndText(@), !.target = EndText(@)]]
        valid(d) == d.source \in ValidNodeIds(data) /\ d.target \in ValidNodeIds(data)
    IN  SelectSeq(mapped, valid)

NotHovered == [on |-> FALSE, id |-> "", stale |-> FALSE]
Hovered(id) == [on |-> TRUE, id |-> id, stale |-> FALSE]

\* The component before its first effect: sims counts the simulations that
\* run, cleanup says whether the last run of the main effect returned one,
\* drawnFor is the data whose elements are in the zoom group, nodes and links
\* are the data bound to the circles and lines, opaque the circles at
\* opacity 1, lit and dim the lines highlighted and dimmed.
NoGraph ==
    [sims |-> 0, cleanup |-> FALSE, drawn |-> FALSE, drawnFor |-> Null, nodes |-> <<>>,
     links |-> <<>>, hovered |-> NotHovered, opaque |-> {}, lit |-> {}, dim |-> {}]

\* the main simulation effect for data, after the cleanup of its last run
MainEffect(c, data) ==
    LET stopped == [c EXCEPT !.sims = IF c.cleanup THEN @ - 1 ELSE @, !.cleanup = FALSE]
    IN  IF Len(data.nodes) = 0 THEN stopped
        ELSE [stopped EXCEPT
                 !.sims = @ + 1, !.cleanup = TRUE, !.drawn = TRUE, !.drawnFor = data,
                 !.nodes = [i \in DOMAIN data.nodes |-> data.nodes[i].id.text],
                 !.links = SimulationLinks(data),
                 !.hovered = IF @.on THEN [@ EXCEPT !.stale = TRUE] ELSE @,
                 !.opaque = DOMAIN data.nodes, !.lit = {}, !.dim = {}]

\* the highlight effect, run when hoveredNode has changed
HighlightEffect(c) ==
    IF c.hovered.on
    THEN LET connectedLinks == {k \in DOMAIN c.links :
                                   c.links[k].source = c.hovered.id \/ c.links[k].target = c.hovered.id}
             neighborIds == {c.hovered.id}
                 \cup {c.links[k].target : k \in {j \in DOMAIN c.links : c.links[j].source = c.hovered.id}}
                 \cup {c.links[k].source : k \in {j \in DOMAIN c.links :
                           c.links[j].source # c.hovered.id /\ c.links[j].target = c.hovered.id}}
         IN  [c EXCEPT !.opaque = {i \in DOMAIN c.nodes : c.nodes[i] \in neighborIds},
                       !.lit = connectedLinks, !.dim = DOMAIN c.links \ connectedLinks]
    ELSE [c EXCEPT !.opaque = DOMAIN c.nodes, !.lit = {}, !.dim = {}]

\* the parent renders with new data, or with the same data and a new
\* onNodeDoubleClick function: the main effect runs again
PropsChange(data) ==
    /\ pin' = data
    /\ pout' = MainEffect(pout, data)

\* mouseover on circle i
MouseOver(i) ==
    /\ pout.drawn
    /\ i \in DOMAIN pout.nodes
    /\ pout.hovered # Hovered(pout.nodes[i])
    /\ pout' = HighlightEffect([pout EXCEPT !.hovered = Hovered(pout.nodes[i])])
    /\ UNCHANGED pin

\* mouseout on the circle the pointer is over
MouseOut ==
    /\ pout.hovered.on
    /\ ~pout.hovered.stale
    /\ pout' = HighlightEffect([pout EXCEPT !.hovered = NotHovered])
    /\ UNCHANGED pin

\* the component is mounted with its first data
InitGraph ==
    /\ AppIdle
    /\ pin \in GraphInputs
    /\ pout = HighlightEffect(MainEffect(NoGraph, pin))

NextGraph ==
    \/ \E data \in LaterGraphs \cup {pin} : PropsChange(data) /\ UNCHANGED <<appVars, viewVars, last>>
    \/ \E i \in 1..MaxNodes : MouseOver(i) /\ UNCHANGED <<appVars, viewVars, last>>
    \/ MouseOut /\ UNCHANGED <<appVars, viewVars, last>>

SpecGraph == InitGraph /\ [][NextGraph]_vars

----------------------------------------------------------------------------
(* cleanJson: the text of a response before it is parsed *)

\* the backtick, written as an apostrophe: a string here cannot hold a backtick
Backtick == "'"
Fence == <<Backtick, Backtick, Backtick>>
JsonFence == Fence \o <<"j", "s", "o", "n">>
TenDigits == [i \in 1..10 |-> "1"]

\* the pieces the texts are put together from
CleanTokens ==
    {Fence, JsonFence, <<",">>, <<" ">>, <<"}">>, <<"]">>, <<":">>, <<"1">>, <<"{">>, TenDigits}

\* the most pieces in a text
MaxTokens == 4

RECURSIVE Texts(_)
Texts(n) == IF n = 0 THEN {<<>>} ELSE Texts(n - 1) \cup {t \o k : t \in Texts(n - 1), k \in CleanTokens}

StartsWith(s, p) == Len(s) >= Len(p) /\ SubSeq(s, 1, Len(p)) = p
EndsWith(s, p) == Len(s) >= Len(p) /\ SubSeq(s, Len(s) - Len(p) + 1, Len(s)) = p
IsDigit(c) == c \in {"0", "1", "2", "3", "4", "5", "6", "7", "8", "9"}

\* .replace(/^```json\s*/, "") and .replace(/^```\s*/, ""), on a text that starts with p
DropOpening(s, p) == TrimStart(SubSeq(s, Len(p) + 1, Len(s)))

\* .replace(/\s*```$/, "")
DropClosing(s) == IF EndsWith(s, Fence) THEN TrimEnd(SubSeq(s, 1, Len(s) - Len(Fence))) ELSE s

\* .replace(/,\s*}/g, "}") and .replace(/,\s*]/g, "]"): closer is "}" or "]"
RECURSIVE DropCommaBefore(_, _, _)
DropCommaBefore(s, i, closer) ==
    IF i > Len(s) THEN <<>>
    ELSE LET j == SkipWs(s, i + 1)
         IN  IF s[i] = "," /\ j <= Len(s) /\ s[j] = closer
             THEN <<closer>> \o DropCommaBefore(s, j + 1, closer)
             ELSE <<s[i]>> \o DropCommaBefore(s, i + 1, closer)

RECURSIVE SkipDigits(_, _)
SkipDigits(s, i) == IF i <= Len(s) /\ IsDigit(s[i]) THEN SkipDigits(s, i + 1) ELSE i

\* .replace(/:\s*(\d{10,})/g, ': 10')
RECURSIVE CapNumbers(_, _)
CapNumbers(s, i) ==
    IF i > Len(s) THEN <<>>
    ELSE LET j == SkipWs(s, i + 1)
             k == SkipDigits(s, j)
         IN  IF s[i] = ":" /\ k - j >= 10
             THEN <<":", " ", "1", "0">> \o CapNumbers(s, k)
             ELSE <<s[i]>> \o CapNumbers(s, i + 1)

CleanJson(text) ==
    LET trimmed == Trim(text)
        unfenced == IF StartsWith(trimmed, JsonFence) THEN DropClosing(DropOpening(trimmed, JsonFence))
                    ELSE IF StartsWith(trimmed, Fence) THEN DropClosing(DropOpening(trimmed, Fence))
                    ELSE trimmed
    IN  CapNumbers(DropCommaBefore(DropCommaBefore(unfenced, 1, "}"), 1, "]"), 1)

CallCleanJson ==
    /\ pout.pc = "call"
    /\ pout' = [pc |-> "return", text |-> CleanJson(pin)]
    /\ UNCHANGED pin

InitClean ==
    /\ AppIdle
    /\ pin \in Texts(MaxTokens)
    /\ pout = [pc |-> "call", text |-> pin]

NextClean ==
    \/ CallCleanJson /\ UNCHANGED <<appVars, viewVars, last>>

SpecClean == InitClean /\ [][NextClean]_vars

----------------------------------------------------------------------------
(* PresentationView: the slide index between two renders *)

\* nextSlide and prevSlide read currentSlideIndex of the render that made
\* them and hand setCurrentSlideIndex an updater; the state changes at once,
\* the handlers see it after the next render.

\* the most slides of a deck, and the most calls between two renders
MaxDeck == 6
MaxPending == 3

\* shown: currentSlideIndex as last rendered; index: the state; pending: the
\* calls since that render
SlideState(total, shown, index, pending, thrown) ==
    [totalSlides |-> total, shown |-> shown, index |-> index, pending |-> pending,
     thrown |-> thrown]

\* if (currentSlideIndex < totalSlides - 1) setCurrentSlideIndex(p => p + 1)
NextSlideCall ==
    /\ ~pout.thrown
    /\ pout.pending < MaxPending
    /\ pout.shown < pout.totalSlides - 1
    /\ pout' = [pout EXCEPT !.index = @ + 1, !.pending = @ + 1]
    /\ UNCHANGED pin

\* if (currentSlideIndex > 0) setCurrentSlideIndex(p => p - 1)
PrevSlideCall ==
    /\ ~pout.thrown
    /\ pout.pending < MaxPending
    /\ pout.shown > 0
    /\ pout' = [pout EXCEPT !.index = @ - 1, !.pending = @ + 1]
    /\ UNCHANGED pin

\* the view renders: data.slides[currentSlideIndex] is read, and with an
\* index outside the deck currentSlide.visualPrompt throws
ViewRenders ==
    /\ ~pout.thrown
    /\ pout.pending > 0
    /\ pout' = IF pout.index \in 0..(pout.totalSlides - 1)
               THEN [pout EXCEPT !.shown = pout.index, !.pending = 0]
               ELSE [pout EXCEPT !.pending = 0, !.thrown = TRUE]
    /\ UNCHANGED pin

InitSlides ==
    /\ AppIdle
    /\ pin \in 1..MaxDeck
    /\ pout = SlideState(pin, 0, 0, 0, FALSE)

NextSlides ==
    \/ NextSlideCall /\ UNCHANGED <<appVars, viewVars, last>>
    \/ PrevSlideCall /\ UNCHANGED <<appVars, viewVars, last>>
    \/ ViewRenders /\ UNCHANGED <<appVars, viewVars, last>>

SpecSlides == InitSlides /\ [][NextSlides]_vars

----------------------------------------------------------------------------
(* App: the log buffer (logs, addLog) *)

\* prev.slice(0, 49)
LogKept == 49
\* the most entries written in a run
MaxLogged == 60

\* prev.slice(0, end)
Slice(prev, end) == SubSeq(prev, 1, MathMin(end, Len(prev)))

\* an addLog that keeps fifty of the old entries
AddLogKeepsFifty(prev, entry) == <<entry>> \o Slice(prev, LogKept + 1)

\* the updater of addLog: [entry, ...prev.slice(0, 49)]
AddLogUpdater(prev, entry) == <<entry>> \o Slice(prev, LogKept)

\* logs holds the entries; an entry is the number of the addLog call that
\* wrote it. written counts the calls, since those after the buffer was
\* last emptied, op names the last step.
LogState(logs, written, since, op) ==
    [logs |-> logs, written |-> written, since |-> since, op |-> op]

\* addLog(msg), from a handler or from a progress callback
AddLog ==
    /\ pout.written < MaxLogged
    /\ pout' = LogState(AddLogUpdater(pout.logs, pout.written + 1), pout.written + 1,
                        pout.since + 1, "addLog")
    /\ UNCHANGED pin

\* handleAnalyze: setLogs([]), addLog("Starting ..."), and the addLog of the
\* first progress callback, which the service calls before it awaits
HandleAnalyzeLogs ==
    /\ pout.written + 2 <= MaxLogged
    /\ pout' = LogState(AddLogUpdater(AddLogUpdater(<<>>, pout.written + 1), pout.written + 2),
                        pout.written + 2, 2, "handleAnalyze")
    /\ UNCHANGED pin

\* reset: setLogs([])
ResetLogs ==
    /\ pout' = LogState(<<>>, pout.written, 0, "reset")
    /\ UNCHANGED pin

InitLogs ==
    /\ AppIdle
    /\ pin = <<>>
    /\ pout = LogState(<<>>, 0, 0, "none")

NextLogs ==
    \/ AddLog /\ UNCHANGED <<appVars, viewVars, last>>
    \/ HandleAnalyzeLogs /\ UNCHANGED <<appVars, viewVars, last>>
    \/ ResetLogs /\ UNCHANGED <<appVars, viewVars, last>>

SpecLogs == InitLogs /\ [][NextLogs]_vars

----------------------------------------------------------------------------
(* Properties *)

AllowedEdges ==
    {<<IDLE, ANALYZING>>, <<ANALYZING, DASHBOARD>>, <<ANALYZING, IDLE>>,
     <<DASHBOARD, GENERATING_SLIDES>>, <<GENERATING_SLIDES, PRESENTATION>>,
     <<GENERATING_SLIDES, DASHBOARD>>, <<PRESENTATION, DASHBOARD>>}

FailureReturnsToStart ==
    [][last'.ev = "failed" =>
          /\ last'.op \in {"analysis", "import"} => appState' = IDLE
          /\ last'.op = "generation" => appState' = DASHBOARD
          /\ appState' \notin {ANALYZING, GENERATING_SLIDES}]_vars

FailedGenerationSeen ==
    last.op = "generation" /\ last.ev = "failed" /\ appState = DASHBOARD

\* C3: no step of an analysis, generation or import other than its
\* successful completion changes graphData, videoList, presentationData or
\* url; in particular the failing step leaves them as the operation found them.
FailureKeepsData ==
    [][(/\ last'.op \in {"analysis", "generation", "import"}
        /\ last'.ev \in {"start", "progress", "failed"})
          => UNCHANGED <<graphData, videoList, presentationData, url>>]_vars

FailedAnalysisSeen ==
    last.op = "analysis" /\ last.ev = "failed" /\ url = OtherUrl

RequestPcs == {"discovery", "analysis", "videos", "graph", "rebuttal"}

\* the requests to the model service that have been sent and not yet answered
InFlight ==
    BagCardinality(imgReqs)
        + BagCardinality([f \in {g \in BagToSet(flows) : g.pc \in RequestPcs} |-> flows[f]])

\* C4: at most one request to the model service is in flight at any moment,
\* counting analysis, generation and slide image requests.
OneRequestInFlight == InFlight <= 1

AnalysisOrder ==
    <<Req("discovery"), Resp("discovery"), Req("analysis"), Resp("analysis"),
      Req("videos"), Resp("videos"), Req("graph"), Resp("graph")>>
ProgressOrder == <<5, 25, 60, 80, 95>>

IsPrefix(a, b) == Len(a) <= Len(b) /\ SubSeq(b, 1, Len(a)) = a

\* C5: the requests of an analysis go out in the order discovery, deep
\* analysis, video list, graph, each after the response to the one before and
\* each at most once; an analysis that succeeded has sent exactly the four;
\* the percentages reported are 5, 25, 60, 80, 95 in this order.
RequestsInOrder ==
    \A f \in BagToSet(flows) :
        f.kind = "analysis" =>
            /\ IsPrefix(f.events, AnalysisOrder)
            /\ IsPrefix(f.reported, ProgressOrder)
            /\ f.pc # "timer" => f.events[Len(f.events)] = Req(f.pc)
            /\ f.pc # "timer" => 2 * Len(f.reported) = Len(f.events) + 1
            /\ f.pc = "timer" => f.events = AnalysisOrder /\ f.reported = ProgressOrder

AnalysisSucceeded ==
    \E f \in BagToSet(flows) :
        f.kind = "analysis" /\ f.pc = "timer" /\ Len(f.events) = 8

NoDuplicates(q) == \A i, j \in DOMAIN q : q[i] = q[j] => i = j

\* C6: no request is sent twice, and the step in which an analysis fails
\* sets the error and ends that analysis without sending anything more; an
\* analysis that fails on parsing the video list has not sent the graph request.
NoRequestAfterFailure ==
    [][/\ \A f \in BagToSet(flows') : NoDuplicates(f.events)
       /\ (last'.op = "analysis" /\ last'.ev = "failed") =>
             /\ error' = AnalysisFailedMsg
             /\ \E f \in BagToSet(flows) :
                   /\ f.kind = "analysis"
                   /\ flows' = flows (-) SetToBag({f})
                   /\ last'.cause = VideoParseFailedMsg =>
                         \A i \in DOMAIN f.events : f.events[i] # Req("graph")]_vars

VideoParseFailureSeen ==
    last.op = "analysis" /\ last.cause = VideoParseFailedMsg /\ error = AnalysisFailedMsg

\* C7: safeParse calls JSON.parse at most twice; when the first call succeeds
\* its value is returned and nothing is repaired; when it fails there is one
\* repair pass and then one second call; when that fails too, the error
\* thrown is the one of the first call.
AtMostTwoAttempts ==
    /\ pout.attempts <= 2
    /\ pout.repairs <= 1
    /\ pout.pc = "retry" => pout.attempts = 1 /\ pout.repairs = 1
    /\ (pout.pc \in {"returned", "thrown"} /\ JsonParses(pin)) =>
          pout.pc = "returned" /\ pout.attempts = 1 /\ pout.repairs = 0 /\ pout.value = pin
    /\ (pout.pc \in {"returned", "thrown"} /\ ~JsonParses(pin)) =>
          pout.attempts = 2 /\ pout.repairs = 1
    /\ pout.pc = "thrown" => pout.thrown = 1

SecondAttemptFailed == pout.pc = "thrown" /\ pout.attempts = 2

\* C8: when the input is a JSON document that was cut off (its nesting left
\* open, at most one string unterminated), the text the repair pass produces
\* is valid JSON.
RepairGivesValidJson ==
    (pin \in Truncations /\ pout.repairs = 1) => JsonParses(pout.text)

\* C9: every graph that analyzeChannelContent returns has node relevance and
\* popularity in 1..10 and link value in 1..5, whatever the parsed fields held.
ReturnedGraphInBounds ==
    pout.pc = "returned" => GraphInBounds(pout.graph)

OutOfRangeSanitized ==
    /\ pout.pc = "returned"
    /\ pin.nodes[1].relevance = JsInt(0)
    /\ pin.nodes[1].popularity = JsInt(11)
    /\ pin.linksIsArray /\ pin.links[1].value = JsText
    /\ pout.graph.nodes[1].relevance = JsInt(5)
    /\ pout.graph.nodes[1].popularity = JsInt(10)
    /\ pout.graph.links[1].value = JsInt(3)

\* C10: whenever graphData is not null, its scores are in 1..10 and its
\* weights in 1..5, for a graph from an analysis and for an imported one.
GraphDataInBounds ==
    graphData # Null => GraphInBounds(graphData)

SameNodes(g, h) ==
    /\ Len(g.nodes) = Len(h.nodes)
    /\ \A i \in DOMAIN g.nodes :
          /\ g.nodes[i].id = h.nodes[i].id
          /\ g.nodes[i].group = h.nodes[i].group
          /\ g.nodes[i].relevance = h.nodes[i].relevance
          /\ g.nodes[i].popularity = h.nodes[i].popularity

SameLinks(g, h) ==
    /\ Len(g.links) = Len(h.links)
    /\ \A i \in DOMAIN g.links :
          /\ g.links[i].source = h.links[i].source
          /\ g.links[i].target = h.links[i].target
          /\ g.links[i].value = h.links[i].value

\* C11: importing the file that export wrote restores the url, the video
\* list in its order, and a graph with the same node ids, groups, relevance
\* and popularity, the same links and the same summary.
ExportImportRoundTrip ==
    [][(last'.op = "import" /\ last'.ev = "succeeded") =>
          /\ url' = pin.url
          /\ videoList' = pin.videoList
          /\ SameNodes(graphData', pin.graphData)
          /\ SameLinks(graphData', pin.graphData)
          /\ graphData'.summary = pin.graphData.summary]_vars

\* an operation is waiting for a response or for the file
Waiting == \E f \in BagToSet(flows) : f.pc \in RequestPcs \cup {"reading"}

SameBannerForEveryCause ==
    [][last'.ev = "failed" =>
          /\ last'.op = "analysis" => error' = AnalysisFailedMsg
          /\ last'.op = "generation" => error' = GenerationFailedMsg]_vars

GraphFailureBannerSeen ==
    /\ last.op = "analysis" /\ last.ev = "failed"
    /\ last.cause = "Failed to construct topic graph. The model output was malformed."
    /\ error = AnalysisFailedMsg

VideoListFrame ==
    [][(videoList' # videoList \/ graphData' # graphData) =>
          \/ last'.op \in {"analysis", "import"} /\ last'.ev = "succeeded"
          \/ last'.op = "reset"]_vars

GenerationKeptVideos ==
    /\ last.op = "generation" /\ last.ev = "succeeded"
    /\ graphData # Null /\ videoList # <<>>

\* C17: every link handed to the force simulation has a source and a target
\* that are ids (as strings) of nodes of the same data; the links of the data
\* with an end that is no node are dropped, all others are kept, in order.
SimulationLinksAreValid ==
    pout.sims > 0 =>
        LET data == pout.drawnFor
            ok(k) == /\ EndText(data.links[k].source) \in ValidNodeIds(data)
                     /\ EndText(data.links[k].target) \in ValidNodeIds(data)
            kept == {k \in DOMAIN data.links : ok(k)}
        IN  /\ \A j \in DOMAIN pout.links :
                  /\ pout.links[j].source \in ValidNodeIds(data)
                  /\ pout.links[j].target \in ValidNodeIds(data)
            /\ Len(pout.links) = Cardinality(kept)
            /\ \A k \in kept :
                  LET j == Cardinality({m \in kept : m <= k})
                  IN  /\ pout.links[j].source = EndText(data.links[k].source)
                      /\ pout.links[j].target = EndText(data.links[k].target)

OrphanLinkDropped ==
    /\ pout.sims > 0
    /\ Len(pout.drawnFor.links) = 2
    /\ Len(pout.links) = 1
    /\ pout.drawnFor.links[1].target = Plain(StrId("Z"))
    /\ pout.drawnFor.links[2].source = Plain(StrId("1"))
    /\ pout.links[1].source = "1"

\* C18: while a node n is hovered, the circles at full opacity are n and the
\* nodes that share a drawn link with n, and the highlighted lines are the
\* links at n; while none is hovered all circles and lines look as drawn.
HoverHighlightsNeighbours ==
    pout.drawn =>
        IF pout.hovered.on
        THEN LET n == pout.hovered.id
                 incident == {k \in DOMAIN pout.links :
                                 pout.links[k].source = n \/ pout.links[k].target = n}
             IN  /\ pout.opaque = {i \in DOMAIN pout.nodes :
                        \/ pout.nodes[i] = n
                        \/ \E k \in incident : pout.nodes[i] \in {pout.links[k].source,
                                                                  pout.links[k].target}}
                 /\ pout.lit = incident
        ELSE pout.opaque = DOMAIN pout.nodes /\ pout.lit = {} /\ pout.dim = {}

\* C19: when the data changes, the simulation of the old data is stopped and
\* what was drawn for it is removed: never more than one simulation runs and
\* nothing is drawn but for the current data, also when that has no nodes.
OneSimulationNothingStale ==
    /\ pout.sims <= 1
    /\ pout.drawn => pout.drawnFor = pin

\* C20: the text that cleanJson returns has no comma that is followed, after
\* optional whitespace, by } or ], and neither starts nor ends with a
\* markdown code fence.
CleanedTextIsClean ==
    pout.pc = "return" =>
        /\ \A i \in DOMAIN pout.text :
              pout.text[i] = "," =>
                  LET j == SkipWs(pout.text, i + 1)
                  IN  ~(j <= Len(pout.text) /\ pout.text[j] \in {"}", "]"})
        /\ ~StartsWith(pout.text, Fence)
        /\ ~EndsWith(pout.text, Fence)

Busy == appState \in {ANALYZING, GENERATING_SLIDES}

\* C22: within one operation, from the step that enters ANALYZING or
\* GENERATING_SLIDES until the step that leaves it, no timer tick and no
\* progress callback lowers the progress shown.
ProgressNeverDecreases ==
    [][(Busy /\ appState' = appState /\ last'.ev # "start") => progress' >= progress]_vars

\* C23: the start of an analysis, an import or a generation clears the error,
\* and so the error is null after an operation has finished with success.
StartClearsError ==
    [][/\ last'.ev = "start" => error' = NoError
       /\ last'.ev = "succeeded" => error' = NoError]_vars

\* C24: when every request and file read completes, with success or with
\* failure, each entry into ANALYZING or GENERATING_SLIDES is followed by
\* IDLE, DASHBOARD or PRESENTATION.
BusyEnds == Busy ~> ~Busy

IsInteger(v) == v.t = "number" /\ v.tenths % 10 = 0
Nearest(v, lo, hi) ==
    LET n == v.tenths \div 10
    IN  JsInt(IF n <= 0 THEN lo ELSE IF n > hi THEN hi ELSE n)

\* C28: the sanitization maps an integer to the nearest value of the range
\* (0 and below to the lower bound, above the upper bound to the upper
\* bound, the others to themselves), and is monotone on integers.
IntegerToNearestInRange ==
    pout.pc = "returned" =>
        /\ \A i \in DOMAIN pin.nodes :
              /\ IsInteger(pin.nodes[i].relevance) =>
                    pout.graph.nodes[i].relevance = Nearest(pin.nodes[i].relevance, ScoreMin, ScoreMax)
              /\ IsInteger(pin.nodes[i].popularity) =>
                    pout.graph.nodes[i].popularity = Nearest(pin.nodes[i].popularity, ScoreMin, ScoreMax)
        /\ pin.linksIsArray =>
              \A i \in DOMAIN pin.links :
                  IsInteger(pin.links[i].value) =>
                      pout.graph.links[i].value = Nearest(pin.links[i].value, WeightMin, WeightMax)
        /\ \A i \in DOMAIN pin.nodes :
              (/\ IsInteger(pin.nodes[i].relevance) /\ IsInteger(pin.nodes[i].popularity)
               /\ pin.nodes[i].relevance.tenths <= pin.nodes[i].popularity.tenths)
                  => pout.graph.nodes[i].relevance.tenths <= pout.graph.nodes[i].popularity.tenths

\* C26: while the presentation view is open, no slide has two image
\* requests pending together: a second request for a slide is sent only
\* after the first has come back without an image.
OneRequestPerSlide ==
    Mounted(appState, presentationData) =>
        \A r \in BagToSet(imgReqs) : r.live => CopiesIn(r, imgReqs) <= 1

\* C27: while the presentation view is open, loadingImage is true exactly
\* when an image request of the view is pending.
LoadingIndicatorAccurate ==
    (Mounted(appState, presentationData) /\ presentationData.slides > 0) =>
        (view.loadingImage <=> \E r \in BagToSet(imgReqs) : r.live)

LogBufferBounded ==
    [][/\ Len(pout'.logs) <= 50
       /\ \A i, j \in DOMAIN pout'.logs : i < j => pout'.logs[i] > pout'.logs[j]
       /\ pout'.op = "addLog" =>
             /\ pout'.logs[1] = pout'.written
             /\ Tail(pout'.logs) = IF Len(pout.logs) = 50
                                   THEN SubSeq(pout.logs, 1, 49)
                                   ELSE pout.logs
       /\ pout'.op = "reset" => pout'.logs = <<>>
       /\ pout'.op = "handleAnalyze" =>
             \A i \in DOMAIN pout'.logs : pout'.logs[i] > pout.written]_vars

OldestEntryDropped ==
    /\ pout.op = "addLog"
    /\ pout.since > 50
    /\ Len(pout.logs) = 50
    /\ pout.logs[50] = pout.written - 49

====
